---- MODULE Spec2Model ----
(***************************************************************************)
(* Text2SQL-Agent: the retry-and-correct SQL generation loop               *)
(* (safe_sql_query, src/agent.py) and the tool-dispatching agent loop      *)
(* that build_agent configures around it.                                  *)
(*                                                                         *)
(* Text is modelled as a sequence of tokens.  A token is either a literal  *)
(* fragment of one of the program's f-strings, a lexical unit the          *)
(* extraction step looks at ("SQLQuery:", "NL", "SP", "SQLResult:",        *)
(* "FENCE_SQL", "FENCE"), or an opaque word supplied by a collaborator     *)
(* (the question, a statement word, a database result, an error text).     *)
(***************************************************************************)
EXTENDS Integers, Sequences, FiniteSets, TLC

(***************************************************************************)
(* Bounds of the model.                                                    *)
(***************************************************************************)
\* largest max_retries a direct caller of safe_sql_query passes
MaxRetries == 3
\* iteration ceiling of the executor (line 219 leaves the library default)
MaxIterations == 2
\* longest model output the extraction step is tried on, in tokens
MaxTextLen == 6
\* largest max_retries of two calls of safe_sql_query that overlap
MaxConcurrentRetries == 2
\* largest num_members generate_members is called with
MaxMembers == 5
\* largest number of members generate_transactions is given
MaxBuyers == 1
\* largest number of campaigns generate_transactions is given
MaxCampaigns == 1
\* largest num_transactions generate_transactions is called with
MaxTransactions == 2
\* largest number of items of one transaction, random.randint(1, 3)
MaxSampleSize == 3
\* max_retries default of build_sql_generation_tool
DefaultMaxRetries == 3

(***************************************************************************)
(* Collaborator values.                                                    *)
(***************************************************************************)
Questions == {<<"q1">>, <<"q2">>}
\* str(e) of the exceptions db.run raises
Errors == {<<"e1">>, <<"e2">>}
\* str(result) of db.run
Results == {<<"r1">>}
\* db.get_table_info() when the agent is built, and db.dialect
TableInfo == <<"schema">>
\* db.get_table_info() over the life of the database
TableInfos == {TableInfo, <<"schema2">>}
Dialect == <<"sqlite">>

\* outputs of the SQL generation chain: marker pair, fenced block, empty
Texts ==
  { <<"SQLQuery:", "SP", "s1", "NL", "SQLResult:", "r">>,
    <<"FENCE_SQL", "NL", "s2", "NL", "FENCE">>,
    <<>> }

(***************************************************************************)
(* String helpers.                                                         *)
(***************************************************************************)
Whitespace == {"NL", "SP"}

\* t occurs in s as a contiguous piece (Python's `t in s`)
Contains(s, t) ==
  \E k \in 1..(Len(s) - Len(t) + 1) : SubSeq(s, k, k + Len(t) - 1) = t

\* str.strip()
Strip(s) ==
  LET keep == {k \in 1..Len(s) : s[k] \notin Whitespace}
  IN  IF keep = {} THEN <<>>
      ELSE LET lo == CHOOSE k \in keep : \A m \in keep : k <= m
               hi == CHOOSE k \in keep : \A m \in keep : k >= m
           IN  SubSeq(s, lo, hi)

\* str.replace(tok, "")
Remove(s, tok) == SelectSeq(s, LAMBDA x : x # tok)

\* positions j where "\nSQLResult:" starts
ResultMarkers(s) ==
  {j \in 1..(Len(s) - 1) : s[j] = "NL" /\ s[j + 1] = "SQLResult:"}

\* re.search(r"SQLQuery:\s*(.*?)(?=\nSQLResult:)", text, re.DOTALL):
\* <<TRUE, group(1)>> on a match, <<FALSE, <<>> >> otherwise
ReSearch(text) ==
  LET qs == {p \in 1..Len(text) : text[p] = "SQLQuery:"}
  IN  IF qs = {} THEN <<FALSE, <<>> >>
      ELSE
        LET p  == CHOOSE x \in qs : \A y \in qs : x <= y
            ms == {j \in ResultMarkers(text) : j > p}
        IN  IF ms = {} THEN <<FALSE, <<>> >>
            ELSE
              LET \* end of the greedy \s* run after the marker
                  nonws == {k \in (p + 1)..Len(text) : text[k] \notin Whitespace}
                  g  == IF nonws = {} THEN Len(text) + 1
                        ELSE CHOOSE k \in nonws : \A m \in nonws : k <= m
                  \* \s* gives back whitespace until a result marker lies ahead
                  starts == {k \in (p + 1)..g : \E j \in ms : j >= k}
                  gs == CHOOSE k \in starts : \A m \in starts : k >= m
                  ahead == {j \in ms : j >= gs}
                  j  == CHOOSE x \in ahead : \A y \in ahead : x <= y
              IN  <<TRUE, SubSeq(text, gs, j - 1)>>

\* mutation: the whole output is always used as the statement
ExtractNoMarker(text) ==
  Strip(Remove(Remove(Strip(text), "FENCE_SQL"), "FENCE"))

\* mutation: without a match the query keyword is cut out of the output
ExtractDropsQueryKeyword(text) ==
  LET m    == ReSearch(text)
      code == IF m[1] THEN m[2] ELSE Remove(text, "SQLQuery:")
  IN  Strip(Remove(Remove(Strip(code), "FENCE_SQL"), "FENCE"))

\* lines 133-136: extraction of the statement from the model output
Extract(text) ==
  LET m    == ReSearch(text)
      code == IF m[1] THEN m[2] ELSE text
  IN  Strip(Remove(Remove(Strip(code), "FENCE_SQL"), "FENCE"))

(***************************************************************************)
(* The messages safe_sql_query builds.                                     *)
(***************************************************************************)
\* line 142
SuccessMessage(result) ==
  <<"Query executed successfully. Result: ">> \o result

\* mutation: the failure message drops the error text
FailureMessageNoError(m, e) ==
  <<"Failed to execute SQL after ", ToString(m), " attempts. Last error: ">>

\* line 148
FailureMessage(m, e) ==
  <<"Failed to execute SQL after ", ToString(m), " attempts. Last error: ">> \o e

\* mutation: the corrective instruction leaves the error text out
CorrectiveNoError(q, sql, e) ==
  <<"The previous attempt to answer the question '">> \o q
    \o <<"' failed. The generated SQL was:\n">> \o sql
    \o <<"\nIt produced the following database error:\n">>
    \o <<"\nPlease analyze the error and the database schema to generate a corrected SQL query.">>

\* mutation: the instruction is not rewritten after a failure
CorrectiveIsQuestion(q, sql, e) == q

\* lines 150-155
CorrectiveInstruction(q, sql, e) ==
  <<"The previous attempt to answer the question '">> \o q
    \o <<"' failed. The generated SQL was:\n">> \o sql
    \o <<"\nIt produced the following database error:\n">> \o e
    \o <<"\nPlease analyze the error and the database schema to generate a corrected SQL query.">>

\* line 157
FallbackMessage ==
  <<"Failed to get a valid response from the database after multiple attempts.">>

\* mutation: off by one, the last attempt is never recognised
IsFinalAttemptOffByOne(idx, m) == idx = m

\* line 147
IsFinalAttempt(idx, m) == idx = m - 1

(***************************************************************************)
(* State.                                                                  *)
(***************************************************************************)
VARIABLES
  mode,           \* "idle", "direct" (safe_sql_query called directly), "agent"
  other,          \* frame of a second, concurrent call of safe_sql_query
  db_table_info,  \* what db.get_table_info() returns at this moment
  sqlpc,          \* position in safe_sql_query
  question,       \* argument of safe_sql_query
  max_retries,    \* argument of safe_sql_query
  i,              \* loop variable of line 129; -1 while unassigned
  chain_input,    \* dict of lines 123-127
  sql_code,       \* lines 131-136
  error_message,  \* line 144
  ret,            \* value returned by safe_sql_query
  calls,          \* history: generation and execution calls of this invocation
  apc,            \* position in the executor's loop
  input,          \* question given to the agent
  iterations,     \* Thinking/Acting cycles completed
  intermediate_steps, \* the scratchpad
  action,         \* tool call chosen by the planner
  output,         \* answer returned by the agent run
  plans,          \* history: kinds of the planner outputs of this run
  toolCalls,      \* history: names of the registered tools run in this run
  dpc,            \* position in the DataGenerator method that is running
  num_rows,       \* num_members or num_transactions of the running method
  gen_i,          \* loop variable i of the running method
  members,        \* list of generate_members, argument of generate_transactions
  items,          \* argument of generate_transactions
  campaigns,      \* argument of generate_transactions
  transactions,   \* list built by generate_transactions
  transaction_items \* list built by generate_transactions

sqlVars == <<sqlpc, question, max_retries, i, chain_input, sql_code,
             error_message, ret, calls>>
agentVars == <<apc, input, iterations, intermediate_steps, action, output,
               plans, toolCalls>>
dataVars == <<dpc, num_rows, gen_i, members, items, campaigns, transactions,
              transaction_items>>
vars == <<mode, other, db_table_info, sqlVars, agentVars, dataVars>>

NoInput == [input |-> <<>>, table_info |-> <<>>, dialect |-> <<>>]
NoAction == [tool |-> "", tool_input |-> <<>>]

\* safe_sql_query is not running: its locals do not exist
SqlIdle ==
  /\ sqlpc = "idle"
  /\ question = <<>>
  /\ max_retries = 0
  /\ i = -1
  /\ chain_input = NoInput
  /\ sql_code = <<>>
  /\ error_message = <<>>
  /\ ret = <<>>
  /\ calls = <<>>

AgentIdle ==
  /\ apc = "idle"
  /\ input = <<>>
  /\ iterations = 0
  /\ intermediate_steps = <<>>
  /\ action = NoAction
  /\ output = <<>>
  /\ plans = <<>>
  /\ toolCalls = <<>>

\* the frame of a call that is not running
IdleFrame ==
  [sqlpc |-> "idle", question |-> <<>>, max_retries |-> 0, i |-> -1,
   chain_input |-> NoInput, sql_code |-> <<>>, error_message |-> <<>>,
   ret |-> <<>>, calls |-> <<>>]

\* no DataGenerator method is running
DataIdle ==
  /\ dpc = "idle"
  /\ num_rows = 0
  /\ gen_i = 0
  /\ members = <<>>
  /\ items = <<>>
  /\ campaigns = <<>>
  /\ transactions = <<>>
  /\ transaction_items = <<>>

Init ==
  /\ mode = "idle"
  /\ other = IdleFrame
  /\ db_table_info = TableInfo
  /\ SqlIdle
  /\ AgentIdle
  /\ DataIdle

(***************************************************************************)
(* safe_sql_query, lines 115-157.                                          *)
(***************************************************************************)
GenCall(idx, inputs, ok, text) ==
  [kind |-> "gen", attempt |-> idx, arg |-> inputs.input,
   table_info |-> inputs.table_info, dialect |-> inputs.dialect,
   ok |-> ok, out |-> text]

ExecCall(idx, statement, ok, res) ==
  [kind |-> "exec", attempt |-> idx, arg |-> statement, ok |-> ok, out |-> res]

\* entry into the function with its arguments bound
Enter(q, m) ==
  /\ sqlpc' = "entry"
  /\ question' = q
  /\ max_retries' = m
  /\ i' = -1
  /\ chain_input' = NoInput
  /\ sql_code' = <<>>
  /\ error_message' = <<>>
  /\ ret' = <<>>
  /\ calls' = <<>>

\* the frame is dropped
Leave ==
  /\ sqlpc' = "idle"
  /\ question' = <<>>
  /\ max_retries' = 0
  /\ i' = -1
  /\ chain_input' = NoInput
  /\ sql_code' = <<>>
  /\ error_message' = <<>>
  /\ ret' = <<>>
  /\ calls' = <<>>

\* a caller other than the agent calls the tool function
DirectCall ==
  /\ mode = "idle"
  /\ \E q \in Questions, m \in (-1)..MaxRetries : Enter(q, m)
  /\ mode' = "direct"
  /\ UNCHANGED agentVars
  /\ UNCHANGED <<other, db_table_info, dataVars>>

\* lines 120-127
GetTableInfo ==
  /\ sqlpc = "entry"
  /\ chain_input' = [input |-> question, table_info |-> db_table_info, dialect |-> Dialect]
  /\ sqlpc' = "for"
  /\ UNCHANGED <<mode, other, db_table_info, dataVars, question, max_retries, i, sql_code, error_message, ret, calls, agentVars>>

\* line 120: db.get_table_info() raises, nothing catches it
GetTableInfoRaises ==
  /\ sqlpc = "entry"
  /\ sqlpc' = "raised"
  /\ UNCHANGED <<mode, other, db_table_info, dataVars, question, max_retries, i, chain_input, sql_code, error_message, ret, calls, agentVars>>

\* mutation: range(max_retries + 1)
ForNextOneMore ==
  /\ sqlpc = "for"
  /\ IF i + 1 <= max_retries
       THEN /\ i' = i + 1
            /\ sqlpc' = "generate"
            /\ ret' = ret
       ELSE /\ i' = i
            /\ ret' = FallbackMessage
            /\ sqlpc' = "returned"
  /\ UNCHANGED <<mode, other, db_table_info, dataVars, question, max_retries, chain_input, sql_code, error_message, calls, agentVars>>

\* line 129, and line 157 when the range is used up
ForNext ==
  /\ sqlpc = "for"
  /\ IF i + 1 < max_retries
       THEN /\ i' = i + 1
            /\ sqlpc' = "generate"
            /\ ret' = ret
       ELSE /\ i' = i
            /\ ret' = FallbackMessage
            /\ sqlpc' = "returned"
  /\ UNCHANGED <<mode, other, db_table_info, dataVars, question, max_retries, chain_input, sql_code, error_message, calls, agentVars>>

\* mutation: an output without the marker pair is dropped and the attempt
\* skipped
GenerateFromSkipsUnmarked(outputs) ==
  /\ sqlpc = "generate"
  /\ \E text \in outputs :
       /\ sql_code' = Extract(text)
       /\ calls' = Append(calls, GenCall(i, chain_input, TRUE, text))
       /\ sqlpc' = IF ReSearch(text)[1] THEN "execute" ELSE "for"
  /\ UNCHANGED <<mode, other, db_table_info, dataVars, question, max_retries, i, chain_input, error_message, ret, agentVars>>

GenerateFromSharedInput(outputs) ==
  /\ sqlpc = "generate"
  /\ \E text \in outputs :
       /\ sql_code' = Extract(text)
       /\ calls' = Append(calls, GenCall(i,
                      IF other.chain_input # NoInput THEN other.chain_input
                                                     ELSE chain_input,
                      TRUE, text))
  /\ sqlpc' = "execute"
  /\ UNCHANGED <<mode, other, db_table_info, dataVars, question, max_retries, i, chain_input, error_message, ret, agentVars>>

\* mutation: every attempt reads the table info from the database again
GenerateFromRefreshesTableInfo(outputs) ==
  /\ sqlpc = "generate"
  /\ \E text \in outputs :
       /\ sql_code' = Extract(text)
       /\ calls' = Append(calls,
            GenCall(i, [chain_input EXCEPT !.table_info = db_table_info], TRUE, text))
  /\ sqlpc' = "execute"
  /\ UNCHANGED <<mode, other, db_table_info, dataVars, question, max_retries, i, chain_input, error_message, ret, agentVars>>

\* lines 131-136, the chain answering with one of `outputs`
GenerateFrom(outputs) ==
  /\ sqlpc = "generate"
  /\ \E text \in outputs :
       /\ sql_code' = Extract(text)
       /\ calls' = Append(calls, GenCall(i, chain_input, TRUE, text))
  /\ sqlpc' = "execute"
  /\ UNCHANGED <<mode, other, db_table_info, dataVars, question, max_retries, i, chain_input, error_message, ret, agentVars>>

\* lines 131-136
Generate == GenerateFrom(Texts)

\* line 131: the chain raises, outside the try block
GenerateRaises ==
  /\ sqlpc = "generate"
  /\ calls' = Append(calls, GenCall(i, chain_input, FALSE, <<>>))
  /\ sqlpc' = "raised"
  /\ UNCHANGED <<mode, other, db_table_info, dataVars, question, max_retries, i, chain_input, sql_code, error_message, ret, agentVars>>

\* mutation: the success branch stores the message but does not return
ExecuteOkNoReturn ==
  /\ sqlpc = "execute"
  /\ \E result \in Results :
       /\ ret' = SuccessMessage(result)
       /\ calls' = Append(calls, ExecCall(i, sql_code, TRUE, result))
  /\ sqlpc' = "for"
  /\ UNCHANGED <<mode, other, db_table_info, dataVars, question, max_retries, i, chain_input, sql_code, error_message, agentVars>>

\* lines 138-142
ExecuteOk ==
  /\ sqlpc = "execute"
  /\ \E result \in Results :
       /\ ret' = SuccessMessage(result)
       /\ calls' = Append(calls, ExecCall(i, sql_code, TRUE, result))
  /\ sqlpc' = "returned"
  /\ UNCHANGED <<mode, other, db_table_info, dataVars, question, max_retries, i, chain_input, sql_code, error_message, agentVars>>

\* mutation: a failed statement is run again without a new generation call
ExecuteFailsRerun ==
  /\ sqlpc = "execute"
  /\ \E e \in Errors :
       /\ error_message' = e
       /\ calls' = Append(calls, ExecCall(i, sql_code, FALSE, e))
       /\ IF IsFinalAttempt(i, max_retries)
            THEN /\ ret' = FailureMessage(max_retries, e)
                 /\ sqlpc' = "returned"
                 /\ chain_input' = chain_input
                 /\ i' = i
            ELSE /\ chain_input' =
                      [chain_input EXCEPT !.input = CorrectiveInstruction(question, sql_code, e)]
                 /\ sqlpc' = "execute"
                 /\ ret' = ret
                 /\ i' = i + 1
  /\ UNCHANGED <<mode, other, db_table_info, dataVars, question, max_retries, sql_code, agentVars>>

\* mutation: the corrective instruction wraps the current instruction
\* instead of the original question
ExecuteFailsNestsInstruction ==
  /\ sqlpc = "execute"
  /\ \E e \in Errors :
       /\ error_message' = e
       /\ calls' = Append(calls, ExecCall(i, sql_code, FALSE, e))
       /\ IF IsFinalAttempt(i, max_retries)
            THEN /\ ret' = FailureMessage(max_retries, e)
                 /\ sqlpc' = "returned"
                 /\ chain_input' = chain_input
            ELSE /\ chain_input' =
                      [chain_input EXCEPT
                         !.input = CorrectiveInstruction(chain_input.input, sql_code, e)]
                 /\ sqlpc' = "for"
                 /\ ret' = ret
  /\ UNCHANGED <<mode, other, db_table_info, dataVars, question, max_retries, i, sql_code, agentVars>>

\* mutation: a failed attempt builds the generation input anew, with the
\* table info the database has now
ExecuteFailsRebuildsInput ==
  /\ sqlpc = "execute"
  /\ \E e \in Errors :
       /\ error_message' = e
       /\ calls' = Append(calls, ExecCall(i, sql_code, FALSE, e))
       /\ IF IsFinalAttempt(i, max_retries)
            THEN /\ ret' = FailureMessage(max_retries, e)
                 /\ sqlpc' = "returned"
                 /\ chain_input' = chain_input
            ELSE /\ chain_input' =
                      [input |-> CorrectiveInstruction(question, sql_code, e),
                       table_info |-> db_table_info, dialect |-> Dialect]
                 /\ sqlpc' = "for"
                 /\ ret' = ret
  /\ UNCHANGED <<mode, other, db_table_info, dataVars, question, max_retries, i, sql_code, agentVars>>

\* lines 143-155
ExecuteFails ==
  /\ sqlpc = "execute"
  /\ \E e \in Errors :
       /\ error_message' = e
       /\ calls' = Append(calls, ExecCall(i, sql_code, FALSE, e))
       /\ IF IsFinalAttempt(i, max_retries)
            THEN /\ ret' = FailureMessage(max_retries, e)
                 /\ sqlpc' = "returned"
                 /\ chain_input' = chain_input
            ELSE /\ chain_input' =
                      [chain_input EXCEPT !.input = CorrectiveInstruction(question, sql_code, e)]
                 /\ sqlpc' = "for"
                 /\ ret' = ret
  /\ UNCHANGED <<mode, other, db_table_info, dataVars, question, max_retries, i, sql_code, agentVars>>

\* the direct caller takes the return value or the exception
DirectReturn ==
  /\ mode = "direct"
  /\ other = IdleFrame
  /\ sqlpc \in {"returned", "raised"}
  /\ Leave
  /\ mode' = "idle"
  /\ UNCHANGED agentVars
  /\ UNCHANGED <<other, db_table_info, dataVars>>

SqlStep ==
  \/ GetTableInfo
  \/ GetTableInfoRaises
  \/ ForNext
  \/ Generate
  \/ GenerateRaises
  \/ ExecuteOk
  \/ ExecuteFails

(***************************************************************************)
(* The agent build_agent returns, lines 195-225: an executor over four     *)
(* tools with the default iteration ceiling, early_stopping_method         *)
(* "generate" and handle_parsing_errors=True.                              *)
(***************************************************************************)
\* mutation: the last tool is built under the name of the third
toolsDuplicateName == <<"list_tables", "describe_table", "sql_query", "sql_query">>

\* line 199, by tool name (lines 39, 58, 160, 77)
tools == <<"list_tables", "describe_table", "sql_query", "schema_lookup">>

\* line 212
allowed_tools == {tools[k] : k \in 1..Len(tools)}

\* tool names the planner may write; the last one is not registered
PlannerToolNames == allowed_tools \cup {"drop_tables"}
\* tool inputs the planner may write
ToolInputs == {<<"q1">>}
\* final answers the planner may write
Answers == {<<"a1">>}

\* values a tool function returns
Str(text) == [type |-> "str", text |-> text]
DocList(text) == [type |-> "list", text |-> text]

Step(tool, tool_input, observation) ==
  [tool |-> tool, tool_input |-> tool_input, observation |-> observation]

\* observation for an output that cannot be parsed (handle_parsing_errors=True)
ParseErrorStep ==
  Step("_Exception", <<"Invalid or incomplete response">>,
       Str(<<"Invalid or incomplete response">>))

\* observation for a tool name outside the registry
InvalidToolObservation(name) ==
  Str(<<name, " is not a valid tool, try one of ">> \o tools)

\* an agent run starts with an empty scratchpad
AgentInvoke ==
  /\ mode = "idle"
  /\ \E q \in Questions : input' = q
  /\ mode' = "agent"
  /\ apc' = "thinking"
  /\ iterations' = 0
  /\ intermediate_steps' = <<>>
  /\ action' = NoAction
  /\ output' = <<>>
  /\ plans' = <<>>
  /\ toolCalls' = <<>>
  /\ UNCHANGED sqlVars
  /\ UNCHANGED <<other, db_table_info, dataVars>>

\* Thinking: the planner signals the final answer
PlanFinish ==
  /\ apc = "thinking"
  /\ iterations < MaxIterations
  /\ \E a \in Answers : output' = a
  /\ apc' = "done_success"
  /\ plans' = Append(plans, "finish")
  /\ UNCHANGED <<mode, other, db_table_info, dataVars, sqlVars, input, iterations, intermediate_steps, action, toolCalls>>

\* Thinking: the planner names a tool and its input
PlanAction ==
  /\ apc = "thinking"
  /\ iterations < MaxIterations
  /\ \E t \in PlannerToolNames, ti \in ToolInputs :
       action' = [tool |-> t, tool_input |-> ti]
  /\ apc' = "acting"
  /\ plans' = Append(plans, "action")
  /\ UNCHANGED <<mode, other, db_table_info, dataVars, sqlVars, input, iterations, intermediate_steps, output, toolCalls>>

\* mutation: handle_parsing_errors left off, the parser's exception escapes
PlanUnparsableRaises ==
  /\ apc = "thinking"
  /\ iterations < MaxIterations
  /\ apc' = "crashed"
  /\ plans' = Append(plans, "unparsable")
  /\ UNCHANGED <<mode, other, db_table_info, dataVars, sqlVars, input, iterations, intermediate_steps, action, output, toolCalls>>

\* Thinking: the output parses neither as a tool call nor as a final answer
\* (line 221)
PlanUnparsable ==
  /\ apc = "thinking"
  /\ iterations < MaxIterations
  /\ intermediate_steps' = Append(intermediate_steps, ParseErrorStep)
  /\ iterations' = iterations + 1
  /\ plans' = Append(plans, "unparsable")
  /\ UNCHANGED <<mode, other, db_table_info, dataVars, sqlVars, apc, input, action, output, toolCalls>>

\* the ceiling is reached: one more model call writes the answer (line 220)
StopGenerate ==
  /\ apc = "thinking"
  /\ iterations >= MaxIterations
  /\ \E a \in Answers : output' = a
  /\ apc' = "done_stopped"
  /\ UNCHANGED <<mode, other, db_table_info, dataVars, sqlVars, input, iterations, intermediate_steps, action, plans, toolCalls>>

\* mutation: the step is recorded twice
ObserveTwice(observation) ==
  /\ intermediate_steps' =
       Append(Append(intermediate_steps, Step(action.tool, action.tool_input, observation)),
              Step(action.tool, action.tool_input, observation))
  /\ iterations' = iterations + 1
  /\ action' = NoAction
  /\ apc' = "thinking"

\* mutation: the scratchpad keeps the latest step only
ObserveOverwrites(observation) ==
  /\ intermediate_steps' = <<Step(action.tool, action.tool_input, observation)>>
  /\ iterations' = iterations + 1
  /\ action' = NoAction
  /\ apc' = "thinking"

\* Observing: the step is appended and the loop goes back to Thinking
Observe(observation) ==
  /\ intermediate_steps' =
       Append(intermediate_steps, Step(action.tool, action.tool_input, observation))
  /\ iterations' = iterations + 1
  /\ action' = NoAction
  /\ apc' = "thinking"

\* mutation: the lookup of an unregistered name raises
ActUnknownToolRaises ==
  /\ apc = "acting"
  /\ action.tool \notin allowed_tools
  /\ apc' = "crashed"
  /\ UNCHANGED <<mode, other, db_table_info, dataVars, sqlVars, input, iterations, intermediate_steps, action, output, plans, toolCalls>>

\* Acting: the name is not in the registry
ActUnknownTool ==
  /\ apc = "acting"
  /\ action.tool \notin allowed_tools
  /\ Observe(InvalidToolObservation(action.tool))
  /\ UNCHANGED <<mode, other, db_table_info, dataVars, sqlVars, input, output, plans, toolCalls>>

\* Acting: list_tables, lines 37-42
ActListTables ==
  /\ apc = "acting"
  /\ action.tool = "list_tables"
  /\ Observe(Str(<<"members, items">>))
  /\ toolCalls' = Append(toolCalls, action.tool)
  /\ UNCHANGED <<mode, other, db_table_info, dataVars, sqlVars, input, output, plans>>

\* Acting: describe_table, lines 56-61; an unknown table yields an error text
ActDescribeTable ==
  /\ apc = "acting"
  /\ action.tool = "describe_table"
  /\ \E o \in {<<"CREATE TABLE">>, <<"Error: table_names not found in database">>} :
       Observe(Str(o))
  /\ toolCalls' = Append(toolCalls, action.tool)
  /\ UNCHANGED <<mode, other, db_table_info, dataVars, sqlVars, input, output, plans>>

\* Acting: schema_lookup, lines 76-78: the retriever's documents
ActSchemaLookup ==
  /\ apc = "acting"
  /\ action.tool = "schema_lookup"
  /\ Observe(DocList(<<"doc1", "doc2", "doc3">>))
  /\ toolCalls' = Append(toolCalls, action.tool)
  /\ UNCHANGED <<mode, other, db_table_info, dataVars, sqlVars, input, output, plans>>

\* line 78: the retriever raises inside the lambda, nothing catches it
ActSchemaLookupRaises ==
  /\ apc = "acting"
  /\ action.tool = "schema_lookup"
  /\ apc' = "crashed"
  /\ toolCalls' = Append(toolCalls, action.tool)
  /\ UNCHANGED <<mode, other, db_table_info, dataVars, sqlVars, input, iterations, intermediate_steps, action, output, plans>>

\* Acting: sql_query, lines 159-161: safe_sql_query(tool_input) with the
\* default max_retries of line 197
ActSqlQuery ==
  /\ apc = "acting"
  /\ action.tool = "sql_query"
  /\ Enter(action.tool_input, DefaultMaxRetries)
  /\ apc' = "in_sql_query"
  /\ toolCalls' = Append(toolCalls, action.tool)
  /\ UNCHANGED <<mode, other, db_table_info, dataVars, input, iterations, intermediate_steps, action, output, plans>>

\* safe_sql_query returned its string
ObserveSqlQuery ==
  /\ apc = "in_sql_query"
  /\ sqlpc = "returned"
  /\ Observe(Str(ret))
  /\ Leave
  /\ UNCHANGED <<mode, other, db_table_info, dataVars, input, output, plans, toolCalls>>

\* safe_sql_query raised: the exception leaves the executor
SqlQueryRaised ==
  /\ apc = "in_sql_query"
  /\ sqlpc = "raised"
  /\ apc' = "crashed"
  /\ Leave
  /\ UNCHANGED <<mode, other, db_table_info, dataVars, input, iterations, intermediate_steps, action, output, plans, toolCalls>>

\* the caller of the agent takes the answer or the exception
AgentReturn ==
  /\ mode = "agent"
  /\ apc \in {"done_success", "done_stopped", "crashed"}
  /\ mode' = "idle"
  /\ apc' = "idle"
  /\ input' = <<>>
  /\ iterations' = 0
  /\ intermediate_steps' = <<>>
  /\ action' = NoAction
  /\ output' = <<>>
  /\ plans' = <<>>
  /\ toolCalls' = <<>>
  /\ UNCHANGED sqlVars
  /\ UNCHANGED <<other, db_table_info, dataVars>>

AgentStep ==
  \/ PlanFinish
  \/ PlanAction
  \/ PlanUnparsable
  \/ StopGenerate
  \/ ActUnknownTool
  \/ ActListTables
  \/ ActDescribeTable
  \/ ActSchemaLookup
  \/ ActSchemaLookupRaises
  \/ ActSqlQuery
  \/ ObserveSqlQuery
  \/ SqlQueryRaised

Next ==
  \/ DirectCall
  \/ DirectReturn
  \/ AgentInvoke
  \/ AgentReturn
  \/ SqlStep
  \/ AgentStep

Spec == Init /\ [][Next]_vars

\* sequential code: a started invocation keeps taking its next step
FairSpec == Spec /\ WF_vars(SqlStep) /\ WF_vars(AgentStep)

(***************************************************************************)
(* Two overlapping calls of safe_sql_query.  question, max_retries, i,     *)
(* chain_input, sql_code and error_message are locals of the call (lines   *)
(* 115-156), so each call has a frame of its own; db and                   *)
(* sql_generation_chain are the only names the calls share (lines          *)
(* 102-113).  The variables above hold the frame of the call that is       *)
(* running, `other` the frame of the call that is waiting.                 *)
(***************************************************************************)
CurrentFrame ==
  [sqlpc |-> sqlpc, question |-> question, max_retries |-> max_retries,
   i |-> i, chain_input |-> chain_input, sql_code |-> sql_code,
   error_message |-> error_message, ret |-> ret, calls |-> calls]

Resume(f) ==
  /\ sqlpc' = f.sqlpc
  /\ question' = f.question
  /\ max_retries' = f.max_retries
  /\ i' = f.i
  /\ chain_input' = f.chain_input
  /\ sql_code' = f.sql_code
  /\ error_message' = f.error_message
  /\ ret' = f.ret
  /\ calls' = f.calls

\* a second caller enters safe_sql_query while a call is in progress
ConcurrentCall ==
  /\ mode = "direct"
  /\ other = IdleFrame
  /\ sqlpc \in {"entry", "for", "generate", "execute"}
  /\ max_retries <= MaxConcurrentRetries
  /\ other' = CurrentFrame
  /\ \E q \in Questions, m \in 1..MaxConcurrentRetries : Enter(q, m)
  /\ UNCHANGED <<mode, db_table_info, dataVars, agentVars>>

\* the scheduler runs the other call
Switch ==
  /\ mode = "direct"
  /\ other # IdleFrame
  /\ other' = CurrentFrame
  /\ Resume(other)
  /\ UNCHANGED <<mode, db_table_info, dataVars, agentVars>>

\* the running call hands its value to its caller; the other call goes on
ConcurrentReturn ==
  /\ mode = "direct"
  /\ other # IdleFrame
  /\ sqlpc \in {"returned", "raised"}
  /\ Resume(other)
  /\ other' = IdleFrame
  /\ UNCHANGED <<mode, db_table_info, dataVars, agentVars>>

ConcNext ==
  \/ DirectCall
  \/ SqlStep
  \/ DirectReturn
  \/ ConcurrentCall
  \/ Switch
  \/ ConcurrentReturn

ConcSpec == Init /\ [][ConcNext]_vars

(***************************************************************************)
(* safe_sql_query against a database whose tables another client alters    *)
(* while the call runs: db.get_table_info() (line 120) reflects the tables  *)
(* as they are when it is called.                                          *)
(***************************************************************************)
\* another client of the database creates, alters or drops a table
AlterTables ==
  /\ \E t \in TableInfos \ {db_table_info} : db_table_info' = t
  /\ UNCHANGED <<mode, other, dataVars, sqlVars, agentVars>>

LiveDbNext ==
  \/ DirectCall
  \/ SqlStep
  \/ DirectReturn
  \/ AlterTables

LiveDbSpec == Init /\ [][LiveDbNext]_vars

(***************************************************************************)
(* The extraction step on its own: one attempt of safe_sql_query whose     *)
(* generation call may answer with any token sequence up to MaxTextLen.    *)
(***************************************************************************)
TextTokens == {"SQLQuery:", "SQLResult:", "NL", "SP", "FENCE_SQL", "FENCE", "s1"}

AnyTexts == UNION {[1..n -> TextTokens] : n \in 0..MaxTextLen}

\* safe_sql_query("q1", 1) about to make its generation call
ExtractInit ==
  /\ mode = "direct"
  /\ other = IdleFrame
  /\ db_table_info = TableInfo
  /\ AgentIdle
  /\ DataIdle
  /\ sqlpc = "generate"
  /\ question = <<"q1">>
  /\ max_retries = 1
  /\ i = 0
  /\ chain_input = [input |-> question, table_info |-> TableInfo, dialect |-> Dialect]
  /\ sql_code = <<>>
  /\ error_message = <<>>
  /\ ret = <<>>
  /\ calls = <<>>

GenerateAnyText == GenerateFrom(AnyTexts)

ExtractNext == GenerateAnyText

ExtractSpec == ExtractInit /\ [][ExtractNext]_vars

(***************************************************************************)
(* DataGenerator.generate_members, src/src/database.py lines 106-136.  A   *)
(* member is modelled by its member_id and its referrer_id; the other      *)
(* columns are drawn independently of these two and of each other.         *)
(***************************************************************************)
\* Python's None in an integer column
None == 0

\* the agent and the query tool are not running
AgentPartIdle ==
  /\ mode = "idle"
  /\ other = IdleFrame
  /\ db_table_info = TableInfo
  /\ SqlIdle
  /\ AgentIdle

Range(seq) == {seq[k] : k \in 1..Len(seq)}

\* line 120
Referrers(member_id) ==
  LET ids == [k \in 1..Len(members) |-> members[k].member_id]
  IN  SelectSeq(ids, LAMBDA id : id # member_id)

\* generate_members(num_members) is called
MembersInit ==
  /\ AgentPartIdle
  /\ dpc = "members"
  /\ num_rows \in 0..MaxMembers
  /\ gen_i = 0
  /\ members = <<>>
  /\ items = <<>>
  /\ campaigns = <<>>
  /\ transactions = <<>>
  /\ transaction_items = <<>>

\* mutation: the referrer is drawn from all the ids the call will generate
GenerateMemberAnyReferrer ==
  /\ dpc = "members"
  /\ gen_i < num_rows
  /\ \E referrer \in {None} \cup 1..num_rows :
       members' = Append(members, [member_id |-> gen_i + 1, referrer_id |-> referrer])
  /\ gen_i' = gen_i + 1
  /\ UNCHANGED <<mode, other, db_table_info, sqlVars, agentVars, dpc, num_rows,
                 items, campaigns, transactions, transaction_items>>

\* lines 119-134: one iteration of the loop
GenerateMember ==
  /\ dpc = "members"
  /\ gen_i < num_rows
  /\ \E referrer \in {None} \cup Range(Referrers(gen_i + 1)) :
       members' = Append(members, [member_id |-> gen_i + 1, referrer_id |-> referrer])
  /\ gen_i' = gen_i + 1
  /\ UNCHANGED <<mode, other, db_table_info, sqlVars, agentVars, dpc, num_rows,
                 items, campaigns, transactions, transaction_items>>

\* lines 135-136: the range is used up
MembersReturn ==
  /\ dpc = "members"
  /\ gen_i >= num_rows
  /\ dpc' = "members_done"
  /\ UNCHANGED <<mode, other, db_table_info, sqlVars, agentVars, num_rows, gen_i,
                 members, items, campaigns, transactions, transaction_items>>

MembersNext ==
  \/ GenerateMember
  \/ MembersReturn

MembersSpec == MembersInit /\ [][MembersNext]_vars

(***************************************************************************)
(* DataGenerator.generate_transactions, src/src/database.py lines          *)
(* 221-273.  A transaction is modelled by transaction_id, member_id,       *)
(* campaign_id and discount_rate, a transaction item by transaction_id     *)
(* and item_id; prices, quantities, payment method and time are left out.  *)
(* random.sample returns the chosen items in a random order, which only    *)
(* decides the order of the rows in transaction_items: the rows are kept   *)
(* in the order of the item list here.                                     *)
(***************************************************************************)
\* discount rates generate_campaigns draws, round(random.uniform(5, 30), 2)
Rates == {5, 30}

\* lists generate_members, generate_items and generate_campaigns return
MemberLists ==
  {[k \in 1..n |-> [member_id |-> k, referrer_id |-> None]] : n \in 0..MaxBuyers}

ItemLists == {[k \in 1..n |-> [item_id |-> k]] : n \in 0..MaxSampleSize}

CampaignLists ==
  UNION {{[k \in 1..n |-> [campaign_id |-> k, discount_rate |-> r[k]]] :
            r \in [1..n -> Rates]} : n \in 0..MaxCampaigns}

\* the elements of a set of positions, in ascending order
Ascending(S) ==
  [n \in 1..Cardinality(S) |-> CHOOSE p \in S : Cardinality({q \in S : q < p}) = n - 1]

\* random.sample(population, k): k different positions of the population
Samples(population, k) ==
  {Ascending(S) : S \in {T \in SUBSET (1..Len(population)) : Cardinality(T) = k}}

\* lines 238-250: the transaction row
NewTransaction(id, member, campaign) ==
  [transaction_id |-> id,
   member_id |-> member.member_id,
   campaign_id |-> IF campaign = <<>> THEN None ELSE campaign[1].campaign_id,
   discount_rate |-> IF campaign = <<>> THEN 0 ELSE campaign[1].discount_rate]

\* lines 256-268: the rows of the selected items
NewTransactionItems(id, selected) ==
  [n \in 1..Len(selected) |->
     [transaction_id |-> id, item_id |-> items[selected[n]].item_id]]

\* generate_transactions(members, items, campaigns, num_transactions) is called
TransactionsInit ==
  /\ AgentPartIdle
  /\ dpc = "transactions"
  /\ num_rows \in 0..MaxTransactions
  /\ gen_i = 0
  /\ members \in MemberLists
  /\ items \in ItemLists
  /\ campaigns \in CampaignLists
  /\ transactions = <<>>
  /\ transaction_items = <<>>

\* mutation: the items are drawn with replacement
GenerateTransactionWithReplacement ==
  /\ dpc = "transactions"
  /\ gen_i < num_rows
  /\ \E m \in 1..Len(members), campaign \in {<<>>} \cup {<<campaigns[c]>> : c \in 1..Len(campaigns)},
        k \in 1..MaxSampleSize :
       \E selected \in [1..k -> 1..Len(items)] :
         /\ transactions' =
              Append(transactions, NewTransaction(gen_i + 1, members[m], campaign))
         /\ transaction_items' =
              transaction_items \o NewTransactionItems(gen_i + 1, selected)
  /\ gen_i' = gen_i + 1
  /\ UNCHANGED <<mode, other, db_table_info, sqlVars, agentVars, dpc, num_rows,
                 members, items, campaigns>>

\* lines 237-270: one iteration of the loop
GenerateTransaction ==
  /\ dpc = "transactions"
  /\ gen_i < num_rows
  /\ \E m \in 1..Len(members), campaign \in {<<>>} \cup {<<campaigns[c]>> : c \in 1..Len(campaigns)},
        k \in 1..MaxSampleSize :
       \E selected \in Samples(items, k) :
         /\ transactions' =
              Append(transactions, NewTransaction(gen_i + 1, members[m], campaign))
         /\ transaction_items' =
              transaction_items \o NewTransactionItems(gen_i + 1, selected)
  /\ gen_i' = gen_i + 1
  /\ UNCHANGED <<mode, other, db_table_info, sqlVars, agentVars, dpc, num_rows,
                 members, items, campaigns>>

\* lines 238, 239, 255: random.choice of an empty list or a sample larger
\* than the item list raises
GenerateTransactionRaises ==
  /\ dpc = "transactions"
  /\ gen_i < num_rows
  /\ \/ members = <<>>
     \/ campaigns = <<>>
     \/ Len(items) < MaxSampleSize
  /\ gen_i' = gen_i + 1
  /\ dpc' = "raised"
  /\ UNCHANGED <<mode, other, db_table_info, sqlVars, agentVars, num_rows,
                 members, items, campaigns, transactions, transaction_items>>

\* lines 272-273: the range is used up
TransactionsReturn ==
  /\ dpc = "transactions"
  /\ gen_i >= num_rows
  /\ dpc' = "transactions_done"
  /\ UNCHANGED <<mode, other, db_table_info, sqlVars, agentVars, num_rows, gen_i,
                 members, items, campaigns, transactions, transaction_items>>

TransactionsNext ==
  \/ GenerateTransaction
  \/ GenerateTransactionRaises
  \/ TransactionsReturn

TransactionsSpec == TransactionsInit /\ [][TransactionsNext]_vars

(***************************************************************************)
(* Vocabulary of the properties.                                           *)
(***************************************************************************)
GenCalls == SelectSeq(calls, LAMBDA c : c.kind = "gen")
ExecCalls == SelectSeq(calls, LAMBDA c : c.kind = "exec")
LastCall == calls[Len(calls)]

\* the invocation ended (by return or by exception), every generation call
\* returned a text and every execution raised
EveryAttemptFailed ==
  /\ sqlpc \in {"returned", "raised"}
  /\ Len(calls) > 0
  /\ \A k \in 1..Len(calls) :
       \/ calls[k].kind = "gen" /\ calls[k].ok
       \/ calls[k].kind = "exec" /\ ~calls[k].ok
  /\ LastCall.kind = "exec"

IsFailureMessage(msg, m) ==
  /\ Len(msg) >= 3
  /\ msg[1] = "Failed to execute SQL after "
  /\ msg[2] = ToString(m)
  /\ msg[3] = " attempts. Last error: "

(***************************************************************************)
(* C1: when the database executes the first generated statement without    *)
(* error (max_retries >= 1), safe_sql_query returns the success message    *)
(* built from that execution's result on attempt 1, after exactly one      *)
(* generation call and one execution call; nothing is called afterwards.   *)
(***************************************************************************)
C1_FirstSuccessReturnsAtOnce ==
  (Len(calls) >= 2 /\ calls[2].kind = "exec" /\ calls[2].ok) =>
    /\ max_retries >= 1
    /\ sqlpc = "returned"
    /\ ret = <<"Query executed successfully. Result: ">> \o calls[2].out
    /\ calls[2].attempt = 0
    /\ Len(calls) = 2
    /\ Len(GenCalls) = 1
    /\ Len(ExecCalls) = 1

C1_Witness ==
  /\ mode = "direct"
  /\ sqlpc = "returned"
  /\ max_retries = 3
  /\ Len(calls) = 2
  /\ calls[2].ok
  /\ calls[2].arg = <<"s1">>

(***************************************************************************)
(* C2: when execution fails on attempts 1..k-1 and succeeds on attempt k   *)
(* (1 <= k <= max_retries), there are exactly k generation and k execution *)
(* calls, alternating generation then execution, and the instruction of    *)
(* attempt n+1 contains the statement and the error text of attempt n.     *)
(***************************************************************************)
C2_SuccessOnAttemptK ==
  (Len(calls) > 0 /\ LastCall.kind = "exec" /\ LastCall.ok) =>
    LET k == LastCall.attempt + 1
    IN  /\ 1 <= k /\ k <= max_retries
        /\ Len(calls) = 2 * k
        /\ Len(GenCalls) = k
        /\ Len(ExecCalls) = k
        /\ \A n \in 1..k :
             /\ calls[2 * n - 1].kind = "gen"
             /\ calls[2 * n - 1].attempt = n - 1
             /\ calls[2 * n].kind = "exec"
             /\ calls[2 * n].attempt = n - 1
             /\ calls[2 * n].arg = Extract(calls[2 * n - 1].out)
             /\ (n < k => ~calls[2 * n].ok)
        /\ \A n \in 1..(k - 1) :
             /\ Contains(calls[2 * n + 1].arg, calls[2 * n].arg)
             /\ Contains(calls[2 * n + 1].arg, calls[2 * n].out)

C2_Witness ==
  /\ sqlpc = "returned"
  /\ Len(calls) = 6
  /\ calls[6].ok
  /\ calls[2].arg = <<"s1">>
  /\ calls[4].arg = <<"s2">>
  /\ calls[2].out # calls[4].out

(***************************************************************************)
(* C3: when every execution attempt fails, safe_sql_query makes exactly    *)
(* max_retries generation and max_retries execution calls and returns, as  *)
(* a string and not as an exception, a failure message containing the      *)
(* error text of the final attempt; the agent loop appends that string as  *)
(* the observation of the step and goes back to Thinking.                  *)
(***************************************************************************)
C3_ExhaustionInv ==
  EveryAttemptFailed =>
    /\ sqlpc = "returned"
    /\ Len(GenCalls) = max_retries
    /\ Len(ExecCalls) = max_retries
    /\ IsFailureMessage(ret, max_retries)
    /\ Contains(ret, LastCall.out)
    /\ SubSeq(ret, 4, Len(ret)) = LastCall.out

C3_ExhaustionObserved ==
  (apc = "in_sql_query" /\ sqlpc = "returned" /\ EveryAttemptFailed) =>
    \/ UNCHANGED vars
    \/ /\ mode' = "agent"
       /\ apc' = "thinking"
       /\ iterations' = iterations + 1
       /\ intermediate_steps' =
            Append(intermediate_steps,
                   [tool |-> "sql_query", tool_input |-> question,
                    observation |-> [type |-> "str", text |-> ret]])

C3_ExhaustionReturnsFailureString ==
  []C3_ExhaustionInv /\ [][C3_ExhaustionObserved]_vars

C3_Witness ==
  /\ mode = "agent"
  /\ apc = "thinking"
  /\ Len(intermediate_steps) = 1
  /\ intermediate_steps[1].tool = "sql_query"
  /\ intermediate_steps[1].observation =
       [type |-> "str",
        text |-> <<"Failed to execute SQL after ", "3", " attempts. Last error: ", "e2">>]

(***************************************************************************)
(* C4 as stated: with max_retries = 3 and every statement failing, the     *)
(* failure message is returned after exactly 3 attempts and the            *)
(* instructions given to the three attempts are pairwise different.        *)
(***************************************************************************)
C4_InstructionsPairwiseDistinct ==
  (EveryAttemptFailed /\ max_retries = 3) =>
    /\ sqlpc = "returned"
    /\ IsFailureMessage(ret, 3)
    /\ Len(GenCalls) = 3
    /\ Len(ExecCalls) = 3
    /\ \A a, b \in 1..Len(GenCalls) : a # b => GenCalls[a].arg # GenCalls[b].arg

(***************************************************************************)
(* C4 amended: with max_retries = 3 and every statement failing, the       *)
(* failure message is returned after exactly 3 attempts; attempt 1 is      *)
(* driven by the question, attempts 2 and 3 by corrective instructions     *)
(* that differ from the question and contain the statement and error of    *)
(* the attempt before; the two corrective instructions are equal whenever  *)
(* those two attempts produced the same statement and the same error.      *)
(***************************************************************************)
C4_ThreeAttemptsCorrectiveInstructions ==
  (EveryAttemptFailed /\ max_retries = 3) =>
    /\ sqlpc = "returned"
    /\ IsFailureMessage(ret, 3)
    /\ Len(GenCalls) = 3
    /\ Len(ExecCalls) = 3
    /\ GenCalls[1].arg = question
    /\ \A n \in 2..3 :
         /\ GenCalls[n].arg # question
         /\ Contains(GenCalls[n].arg, question)
         /\ Contains(GenCalls[n].arg, ExecCalls[n - 1].arg)
         /\ Contains(GenCalls[n].arg, ExecCalls[n - 1].out)
    /\ (ExecCalls[1].arg = ExecCalls[2].arg /\ ExecCalls[1].out = ExecCalls[2].out)
         => GenCalls[2].arg = GenCalls[3].arg

C4_Witness ==
  /\ EveryAttemptFailed
  /\ max_retries = 3
  /\ Len(ExecCalls) = 3
  /\ ExecCalls[1].arg = <<"s1">>
  /\ ExecCalls[2].arg = <<"s1">>
  /\ ExecCalls[1].out = ExecCalls[2].out
  /\ GenCalls[2].arg = GenCalls[3].arg

(***************************************************************************)
(* C5 as stated: when the final allowed attempt fails, the returned        *)
(* failure message contains the last executed statement and the last       *)
(* error text.                                                             *)
(***************************************************************************)
C5_FailureMessageHasStatementAndError ==
  (sqlpc = "returned" /\ Len(calls) > 0 /\ LastCall.kind = "exec" /\ ~LastCall.ok
     /\ LastCall.attempt = max_retries - 1) =>
    /\ Contains(ret, LastCall.arg)
    /\ Contains(ret, LastCall.out)

(***************************************************************************)
(* C5 amended: when the final allowed attempt fails, the returned failure  *)
(* message is the fixed text with max_retries followed by the last error   *)
(* text; the last executed statement is not put into it.                   *)
(***************************************************************************)
C5_FailureMessageHasErrorOnly ==
  (sqlpc = "returned" /\ Len(calls) > 0 /\ LastCall.kind = "exec" /\ ~LastCall.ok
     /\ LastCall.attempt = max_retries - 1) =>
    /\ ret = <<"Failed to execute SQL after ", ToString(max_retries),
               " attempts. Last error: ">> \o LastCall.out
    /\ error_message = LastCall.out
    /\ sql_code = LastCall.arg
    /\ (~Contains(LastCall.out, sql_code) /\ sql_code # <<>>) => ~Contains(ret, sql_code)

C5_Witness ==
  /\ sqlpc = "returned"
  /\ i = max_retries - 1
  /\ Len(calls) = 2 * max_retries
  /\ max_retries >= 2
  /\ ~LastCall.ok
  /\ sql_code = <<"s2">>
  /\ error_message = <<"e1">>

(***************************************************************************)
(* C6 as stated: every error raised inside a tool invocation (the          *)
(* generation call or db.get_table_info in sql_query, the retriever in     *)
(* schema_lookup, ...) becomes a textual observation; none leaves the      *)
(* tool as an exception and none terminates the agent run.                 *)
(***************************************************************************)
C6_ToolErrorsBecomeObservations ==
  apc # "crashed"

(***************************************************************************)
(* C7: the attempt index of an invocation starts at 0, grows by exactly 1  *)
(* per attempt, never repeats or decreases and never reaches max_retries;  *)
(* provided every model and database call returns or raises, the           *)
(* invocation ends after at most max_retries attempts.                     *)
(***************************************************************************)
C7_IndexInv ==
  /\ i = -1 \/ (0 <= i /\ i < max_retries)
  /\ \A k \in 1..Len(GenCalls) : GenCalls[k].attempt = k - 1
  /\ \A k \in 1..Len(ExecCalls) : ExecCalls[k].attempt = k - 1
  /\ Len(GenCalls) <= (IF max_retries > 0 THEN max_retries ELSE 0)
  /\ sqlpc \in {"generate", "execute"} => i = Len(ExecCalls)

C7_IndexStep ==
  (sqlpc # "idle" /\ sqlpc' # "idle") =>
    /\ i' = i \/ i' = i + 1
    /\ i' = i + 1 <=> (sqlpc = "for" /\ sqlpc' = "generate")

C7_Terminates ==
  (sqlpc = "entry") ~> (sqlpc \in {"returned", "raised"})

C7_AttemptIndexBoundedAndTerminates ==
  []C7_IndexInv /\ [][C7_IndexStep]_vars /\ C7_Terminates

C7_Witness ==
  /\ sqlpc = "returned"
  /\ max_retries = 3
  /\ i = 2
  /\ Len(GenCalls) = 3
  /\ ~LastCall.ok

(***************************************************************************)
(* C8 as stated: every agent invocation eventually reaches Done, on a      *)
(* final answer or, past the iteration ceiling, with a best-effort         *)
(* answer; it neither raises nor loops forever.                            *)
(***************************************************************************)
C8_AgentRunReachesDone ==
  (apc = "thinking" /\ iterations = 0) ~>
     (apc \in {"done_success", "done_stopped"})

(***************************************************************************)
(* C9: an unparsable planner output on iteration 1 does not crash the      *)
(* loop: the corrective observation is appended to the scratchpad, no tool *)
(* is run for it, and when the output of iteration 2 is a final answer the *)
(* run ends in Done-Success within the iteration budget.                   *)
(***************************************************************************)
C9_ParseErrorIsRecoverable ==
  (Len(plans) >= 1 /\ plans[1] = "unparsable") =>
    /\ Len(intermediate_steps) >= 1
    /\ intermediate_steps[1] =
         [tool |-> "_Exception",
          tool_input |-> <<"Invalid or incomplete response">>,
          observation |-> [type |-> "str", text |-> <<"Invalid or incomplete response">>]]
    /\ Len(plans) = 1 =>
         /\ apc = "thinking"
         /\ iterations = 1
         /\ Len(intermediate_steps) = 1
         /\ toolCalls = <<>>
    /\ (Len(plans) >= 2 /\ plans[2] = "finish") =>
         /\ apc = "done_success"
         /\ output \in Answers
         /\ iterations = 1
         /\ iterations < MaxIterations
         /\ Len(intermediate_steps) = 1
         /\ toolCalls = <<>>

C9_Witness ==
  /\ plans = <<"unparsable", "finish">>
  /\ apc = "done_success"
  /\ Len(intermediate_steps) = 1

(***************************************************************************)
(* C10: when the planner names a tool outside the allowed names, no        *)
(* registered tool is run, the "not a valid tool" observation is appended  *)
(* to the scratchpad and the loop goes back to Thinking, one iteration of  *)
(* the budget used.                                                        *)
(***************************************************************************)
C10_UnknownToolStep ==
  (apc = "acting" /\ action.tool \notin {"list_tables", "describe_table", "sql_query", "schema_lookup"}) =>
    \/ UNCHANGED vars
    \/ /\ apc' = "thinking"
       /\ mode' = mode
       /\ toolCalls' = toolCalls
       /\ sqlpc' = "idle"
       /\ iterations' = iterations + 1
       /\ intermediate_steps' =
            Append(intermediate_steps,
                   [tool |-> action.tool, tool_input |-> action.tool_input,
                    observation |->
                      [type |-> "str",
                       text |-> <<action.tool, " is not a valid tool, try one of ",
                                  "list_tables", "describe_table", "sql_query",
                                  "schema_lookup">>]])

C10_UnknownToolIsObserved == [][C10_UnknownToolStep]_vars

C10_Witness ==
  /\ apc = "thinking"
  /\ iterations = 1
  /\ toolCalls = <<>>
  /\ Len(intermediate_steps) = 1
  /\ intermediate_steps[1].tool = "drop_tables"

(***************************************************************************)
(* C11: when the planner answers with one call of a registered tool and    *)
(* then the final-answer signal, the run makes exactly one                 *)
(* Thinking/Acting/Observing cycle (one tool invocation, one scratchpad    *)
(* entry) and ends in Done-Success with the answer text.                   *)
(***************************************************************************)
C11_OneToolCallThenAnswer ==
  (plans = <<"action", "finish">> /\ Len(toolCalls) >= 1) =>
    /\ apc = "done_success"
    /\ output \in Answers
    /\ iterations = 1
    /\ Len(toolCalls) = 1
    /\ Len(intermediate_steps) = 1
    /\ intermediate_steps[1].tool = toolCalls[1]
    /\ intermediate_steps[1].tool \in {"list_tables", "describe_table", "sql_query", "schema_lookup"}

C11_Witness ==
  /\ plans = <<"action", "finish">>
  /\ apc = "done_success"
  /\ toolCalls = <<"list_tables">>
  /\ output = <<"a1">>

(***************************************************************************)
(* C12: within one agent invocation the scratchpad is append-only: a step  *)
(* leaves it unchanged or appends exactly one (tool_name, tool_input,      *)
(* observation) entry at its end; every new invocation starts with an      *)
(* empty scratchpad.                                                       *)
(***************************************************************************)
C12_ScratchpadStep ==
  /\ (apc # "idle" /\ apc' # "idle") =>
       \/ intermediate_steps' = intermediate_steps
       \/ /\ Len(intermediate_steps') = Len(intermediate_steps) + 1
          /\ SubSeq(intermediate_steps', 1, Len(intermediate_steps)) = intermediate_steps
          /\ DOMAIN intermediate_steps'[Len(intermediate_steps')]
               = {"tool", "tool_input", "observation"}
  /\ (apc = "idle" /\ apc' # "idle") =>
       /\ apc' = "thinking"
       /\ intermediate_steps' = <<>>
       /\ iterations' = 0

C12_ScratchpadAppendOnly == [][C12_ScratchpadStep]_vars

C12_Witness ==
  /\ Len(intermediate_steps) = 2
  /\ intermediate_steps[1].tool = "sql_query"
  /\ intermediate_steps[2].tool = "describe_table"

(***************************************************************************)
(* C13: the registry holds exactly four tools with pairwise distinct       *)
(* names, the allowed-tool set is exactly the set of those names, and      *)
(* every allowed name the planner writes dispatches to exactly one tool.   *)
(***************************************************************************)
C13_RegistryNamesUnique ==
  /\ Len(tools) = 4
  /\ \A a, b \in 1..Len(tools) : a # b => tools[a] # tools[b]
  /\ allowed_tools = {"list_tables", "describe_table", "sql_query", "schema_lookup"}
  /\ (apc = "acting" /\ action.tool \in {"list_tables", "describe_table", "sql_query", "schema_lookup"}) =>
       Cardinality({k \in 1..Len(tools) : tools[k] = action.tool}) = 1
  /\ \A k \in 1..Len(toolCalls) :
       Cardinality({n \in 1..Len(tools) : tools[n] = toolCalls[k]}) = 1

C13_Witness ==
  /\ apc = "thinking"
  /\ toolCalls = <<"schema_lookup", "sql_query">>

(***************************************************************************)
(* C14 as stated: the value every tool function returns, schema_lookup     *)
(* and list_tables included, is a text string.                             *)
(***************************************************************************)
C14_ToolsReturnStrings ==
  \A k \in 1..Len(intermediate_steps) :
    intermediate_steps[k].observation.type = "str"

(***************************************************************************)
(* C15: across any sequence or interleaving of invocations, every          *)
(* invocation makes its first generation call at attempt index 0 with its  *)
(* own question as the instruction, and every later generation call with   *)
(* the corrective instruction built from its own question and from the     *)
(* statement and error of its own preceding attempt: nothing produced in   *)
(* one invocation appears in the generation input of another.              *)
(***************************************************************************)
InputsAreOwn(f) ==
  \A n \in 1..Len(f.calls) :
    f.calls[n].kind = "gen" =>
      IF n = 1
        THEN f.calls[n].attempt = 0 /\ f.calls[n].arg = f.question
        ELSE /\ f.calls[n - 1].kind = "exec"
             /\ ~f.calls[n - 1].ok
             /\ f.calls[n].attempt = f.calls[n - 1].attempt + 1
             /\ f.calls[n].arg = CorrectiveInstruction(f.question,
                                    f.calls[n - 1].arg, f.calls[n - 1].out)

C15_InvocationsShareNoInput ==
  /\ InputsAreOwn(CurrentFrame)
  /\ InputsAreOwn(other)

\* two overlapping invocations with different questions, each of them in its
\* second attempt
C15_Witness ==
  /\ other # IdleFrame
  /\ other.question # question
  /\ \E n \in 1..Len(calls) : calls[n].kind = "gen" /\ calls[n].attempt = 1
  /\ \E n \in 1..Len(other.calls) :
       other.calls[n].kind = "gen" /\ other.calls[n].attempt = 1

(***************************************************************************)
(* Vocabulary of the extraction properties: the model output of the        *)
(* attempt and the statement extracted from it.                            *)
(***************************************************************************)
Extracted == sqlpc = "execute" /\ Len(calls) = 1

ModelOutput == calls[1].out

HasToken(s, tok) == \E k \in 1..Len(s) : s[k] = tok

HasFence(s) == HasToken(s, "FENCE") \/ HasToken(s, "FENCE_SQL")

QueryMarkers(s) == {k \in 1..Len(s) : s[k] = "SQLQuery:"}

FirstQueryMarker(s) == CHOOSE p \in QueryMarkers(s) : \A q \in QueryMarkers(s) : p <= q

\* positions of "SQLResult:" at the start of a line, after the first query marker
LineStartResults(s) ==
  {k \in 2..Len(s) : s[k] = "SQLResult:" /\ s[k - 1] = "NL" /\ k - 1 > FirstQueryMarker(s)}

FirstLineStartResult(s) ==
  CHOOSE k \in LineStartResults(s) : \A m \in LineStartResults(s) : k <= m

\* the text after the first query marker up to the newline of the result marker
Region(s) == SubSeq(s, FirstQueryMarker(s) + 1, FirstLineStartResult(s) - 2)

\* s without fence tokens and without whitespace at its two ends
Bare(s) ==
  LET t    == SelectSeq(s, LAMBDA x : x \notin {"FENCE", "FENCE_SQL"})
      keep == {k \in 1..Len(t) : t[k] \notin {"NL", "SP"}}
  IN  IF keep = {} THEN <<>>
      ELSE SubSeq(t, CHOOSE k \in keep : \A m \in keep : k <= m,
                     CHOOSE k \in keep : \A m \in keep : k >= m)

(***************************************************************************)
(* C16 as stated: for every model output holding a fenced code block, a    *)
(* "SQLQuery:" marker and a "SQLResult:" marker, the extracted statement   *)
(* has no fence marker and neither marker keyword.                         *)
(***************************************************************************)
C16_MarkedOutputYieldsBareStatement ==
  (Extracted /\ HasFence(ModelOutput) /\ HasToken(ModelOutput, "SQLQuery:")
     /\ HasToken(ModelOutput, "SQLResult:")) =>
    /\ ~HasFence(sql_code)
    /\ ~HasToken(sql_code, "SQLQuery:")
    /\ ~HasToken(sql_code, "SQLResult:")

(***************************************************************************)
(* C16 amended: for every model output holding a fenced code block,        *)
(* exactly one "SQLQuery:" marker and exactly one "SQLResult:" marker,     *)
(* the latter at the start of a line after the former (fences and          *)
(* keywords being whole tokens), the extracted statement has no fence      *)
(* marker and neither marker keyword and equals the text between the two   *)
(* markers with fences and surrounding whitespace removed.                 *)
(***************************************************************************)
C16_LineStartResultMarkerYieldsBareStatement ==
  (Extracted /\ HasFence(ModelOutput)
     /\ Cardinality(QueryMarkers(ModelOutput)) = 1
     /\ Cardinality({k \in 1..Len(ModelOutput) : ModelOutput[k] = "SQLResult:"}) = 1
     /\ LineStartResults(ModelOutput) # {}) =>
    /\ ~HasFence(sql_code)
    /\ ~HasToken(sql_code, "SQLQuery:")
    /\ ~HasToken(sql_code, "SQLResult:")
    /\ sql_code = Bare(Region(ModelOutput))
    /\ calls[1].attempt = 0

C16_Witness ==
  /\ Extracted
  /\ ModelOutput = <<"SQLQuery:", "FENCE_SQL", "s1", "NL", "SQLResult:">>
  /\ sql_code = <<"s1">>

(***************************************************************************)
(* C17 as stated: within one invocation every execution call runs the      *)
(* statement of its own generation call, once, and no statement executed   *)
(* in an earlier attempt is executed again in a later attempt.             *)
(***************************************************************************)
C17_NoStatementExecutedTwice ==
  /\ \A n \in 1..Len(calls) :
       calls[n].kind = "exec" =>
         /\ n > 1
         /\ calls[n - 1].kind = "gen"
         /\ calls[n - 1].attempt = calls[n].attempt
  /\ \A a, b \in 1..Len(ExecCalls) : a # b => ExecCalls[a].arg # ExecCalls[b].arg

(***************************************************************************)
(* C17 amended: within one invocation each attempt executes exactly once   *)
(* the statement extracted from its own generation call (every execution   *)
(* call is directly preceded by the generation call of the same attempt,   *)
(* nothing is run again without a new generation call); the model may      *)
(* generate the same statement text again, and it is then executed again   *)
(* in the later attempt.                                                   *)
(***************************************************************************)
C17_OneExecutionPerGeneration ==
  /\ \A n \in 1..Len(calls) :
       calls[n].kind = "exec" =>
         /\ n > 1
         /\ calls[n - 1].kind = "gen"
         /\ calls[n - 1].ok
         /\ calls[n - 1].attempt = calls[n].attempt
         /\ calls[n].arg = Extract(calls[n - 1].out)
  /\ \A n \in 1..Len(calls) :
       (calls[n].kind = "gen" /\ n > 1) => calls[n - 1].kind = "exec"
  /\ \A a, b \in 1..Len(ExecCalls) :
       a # b => ExecCalls[a].attempt # ExecCalls[b].attempt
  /\ Len(calls) > 0 => calls[1].kind = "gen"

C17_Witness ==
  /\ sqlpc = "returned"
  /\ Len(ExecCalls) = 3
  /\ ExecCalls[1].arg = <<"s2">>
  /\ ExecCalls[2].arg = <<"s1">>
  /\ ExecCalls[3].arg = <<"s2">>
  /\ ExecCalls[3].ok

(***************************************************************************)
(* C18: single-step memory.  The instruction of every attempt after the    *)
(* first is built from the original question, the statement of the attempt *)
(* just before and its error text, and from nothing else: it embeds the    *)
(* question as given (never an earlier corrective instruction) and no      *)
(* statement or error text of an older attempt.                            *)
(***************************************************************************)
C18_SingleStepMemory ==
  /\ Len(GenCalls) >= 1 => GenCalls[1].arg = question
  /\ \A n \in 2..Len(GenCalls) :
       /\ n - 1 <= Len(ExecCalls)
       /\ ~ExecCalls[n - 1].ok
       /\ GenCalls[n].arg =
            <<"The previous attempt to answer the question '">> \o question
              \o <<"' failed. The generated SQL was:\n">> \o ExecCalls[n - 1].arg
              \o <<"\nIt produced the following database error:\n">> \o ExecCalls[n - 1].out
              \o <<"\nPlease analyze the error and the database schema to generate a corrected SQL query.">>
       /\ Len(SelectSeq(GenCalls[n].arg,
                        LAMBDA x : x = "The previous attempt to answer the question '")) = 1
       /\ \A m \in 1..(n - 2) :
            /\ (ExecCalls[m].arg # <<>> /\ ExecCalls[m].arg # ExecCalls[n - 1].arg)
                 => ~Contains(GenCalls[n].arg, ExecCalls[m].arg)
            /\ ExecCalls[m].out # ExecCalls[n - 1].out
                 => ~Contains(GenCalls[n].arg, ExecCalls[m].out)
  /\ sqlpc \in {"for", "generate"} /\ i >= 0 /\ Len(ExecCalls) > i =>
       chain_input.input =
         <<"The previous attempt to answer the question '">> \o question
           \o <<"' failed. The generated SQL was:\n">> \o ExecCalls[Len(ExecCalls)].arg
           \o <<"\nIt produced the following database error:\n">> \o ExecCalls[Len(ExecCalls)].out
           \o <<"\nPlease analyze the error and the database schema to generate a corrected SQL query.">>

C18_Witness ==
  /\ Len(GenCalls) = 3
  /\ ExecCalls[1].arg = <<"s1">>
  /\ ExecCalls[1].out = <<"e1">>
  /\ ExecCalls[2].arg = <<"s2">>
  /\ ExecCalls[2].out = <<"e2">>
  /\ Contains(GenCalls[3].arg, <<"s2">>)
  /\ ~Contains(GenCalls[3].arg, <<"s1">>)
  /\ ~Contains(GenCalls[3].arg, <<"e1">>)

(***************************************************************************)
(* C19: a model output without the marker pair (empty text included) does  *)
(* not abort or skip the attempt: the whole text, stripped of surrounding  *)
(* whitespace and fences, goes to the database as the statement, and when  *)
(* that execution fails the attempt uses up one unit of the retry budget   *)
(* like any other execution error.                                         *)
(***************************************************************************)
Unmarked(text) ==
  \/ QueryMarkers(text) = {}
  \/ LineStartResults(text) = {}

C19_UnmarkedOutputIsExecuted ==
  \A n \in 1..Len(calls) :
    (calls[n].kind = "gen" /\ calls[n].ok /\ Unmarked(calls[n].out)) =>
      /\ n = Len(calls) =>
           /\ sqlpc = "execute"
           /\ sql_code = Bare(calls[n].out)
           /\ i = calls[n].attempt
      /\ n < Len(calls) =>
           /\ calls[n + 1].kind = "exec"
           /\ calls[n + 1].attempt = calls[n].attempt
           /\ calls[n + 1].arg = Bare(calls[n].out)
           /\ (~calls[n + 1].ok /\ n + 1 = Len(calls)) =>
                IF calls[n].attempt = max_retries - 1
                  THEN /\ sqlpc = "returned"
                       /\ IsFailureMessage(ret, max_retries)
                  ELSE \/ sqlpc = "for" /\ i = calls[n].attempt
                       \/ sqlpc = "generate" /\ i = calls[n].attempt + 1
           /\ n + 2 <= Len(calls) =>
                /\ ~calls[n + 1].ok
                /\ calls[n + 2].kind = "gen"
                /\ calls[n + 2].attempt = calls[n].attempt + 1

C19_Witness ==
  /\ Len(calls) = 4
  /\ calls[1].out = <<>>
  /\ calls[2].arg = <<>>
  /\ ~calls[2].ok
  /\ calls[3].out = <<"FENCE_SQL", "NL", "s2", "NL", "FENCE">>
  /\ calls[4].arg = <<"s2">>
  /\ ~calls[4].ok
  /\ max_retries = 2
  /\ sqlpc = "returned"

(***************************************************************************)
(* C20: safe_sql_query returns the generic fallback message exactly when   *)
(* max_retries <= 0, and then without any generation or execution call;    *)
(* with max_retries >= 1 the fallback return is never reached.             *)
(***************************************************************************)
C20_FallbackOnlyWithoutAttempts ==
  /\ sqlpc = "returned" =>
       (ret = <<"Failed to get a valid response from the database after multiple attempts.">>
          <=> max_retries <= 0)
  /\ (sqlpc # "idle" /\ max_retries <= 0) =>
       /\ calls = <<>>
       /\ sqlpc \in {"entry", "for", "returned", "raised"}
       /\ i = -1
  /\ (sqlpc = "for" /\ max_retries >= 1) => i + 1 < max_retries

C20_Witness ==
  /\ sqlpc = "returned"
  /\ max_retries = 0
  /\ calls = <<>>
  /\ ret = <<"Failed to get a valid response from the database after multiple attempts.">>

(***************************************************************************)
(* C21: every generation call of one invocation is given the same          *)
(* table_info and dialect, the ones read from the database before the      *)
(* first attempt, whatever happens to the database meanwhile; a failed     *)
(* attempt changes the "input" field of the generation input and nothing   *)
(* else of it, and the question stays as the caller passed it.             *)
(***************************************************************************)
C21_SameSchemaInv ==
  \A n \in 1..Len(calls) :
    calls[n].kind = "gen" =>
      /\ calls[n].table_info = chain_input.table_info
      /\ calls[n].dialect = chain_input.dialect
      /\ \A m \in 1..Len(calls) :
           calls[m].kind = "gen" =>
             /\ calls[m].table_info = calls[n].table_info
             /\ calls[m].dialect = calls[n].dialect

C21_FrameStep ==
  /\ (sqlpc = "entry" /\ sqlpc' = "for") =>
       chain_input' = [input |-> question, table_info |-> db_table_info,
                       dialect |-> Dialect]
  /\ (sqlpc \notin {"idle", "entry"} /\ sqlpc' # "idle") =>
       /\ chain_input'.table_info = chain_input.table_info
       /\ chain_input'.dialect = chain_input.dialect
       /\ DOMAIN chain_input' = DOMAIN chain_input
       /\ question' = question
  /\ (sqlpc = "execute" /\ sqlpc' = "for") =>
       chain_input'.input = CorrectiveInstruction(question', sql_code, error_message')

C21_SchemaReadOnce ==
  []C21_SameSchemaInv /\ [][C21_FrameStep]_vars

\* the second attempt has been given the table info of the first although
\* the database has other tables by now
C21_Witness ==
  /\ sqlpc = "execute"
  /\ i = 1
  /\ Len(calls) = 3
  /\ calls[3].kind = "gen"
  /\ calls[3].table_info = TableInfo
  /\ calls[3].arg # question
  /\ db_table_info # TableInfo

(***************************************************************************)
(* Vocabulary of C22: the marker pair of a model output.                   *)
(***************************************************************************)
\* a query marker is followed later by a newline and "SQLResult:"
HasMarkerPair(s) ==
  \E q \in QueryMarkers(s) :
    \E k \in (q + 2)..Len(s) : s[k] = "SQLResult:" /\ s[k - 1] = "NL"

(***************************************************************************)
(* C22 as stated: with a marker pair the statement is the text between     *)
(* the first query marker and the first result marker after it; in every   *)
(* other case it is the whole output, query keyword included; fences and   *)
(* surrounding whitespace are removed in both cases.                       *)
(***************************************************************************)
C22_PairOrWholeOutput ==
  Extracted =>
    IF HasMarkerPair(ModelOutput)
      THEN sql_code = Bare(Region(ModelOutput))
      ELSE sql_code = Bare(ModelOutput)

(***************************************************************************)
(* C22 amended: the marker pair is used exactly when a "SQLQuery:" marker  *)
(* is followed later by a newline and "SQLResult:".  The statement is then *)
(* the text between the first query marker and the first result marker     *)
(* after it, unless nothing but whitespace lies between these two and a    *)
(* further result marker follows at the start of a later line: in that     *)
(* case the statement runs from the first "SQLResult:" keyword up to the   *)
(* next result marker.  In every other case the statement is the whole     *)
(* output, query keyword included.  Fences and surrounding whitespace are  *)
(* removed in all cases (fences and keywords being whole tokens).          *)
(***************************************************************************)
\* nothing but whitespace between the first query marker and its result marker
EmptyRegion(s) == \A k \in 1..Len(Region(s)) : Region(s)[k] \in {"NL", "SP"}

LaterLineStartResults(s) == {k \in LineStartResults(s) : k > FirstLineStartResult(s)}

\* from the first "SQLResult:" keyword to the newline of the next result marker
ResultRegion(s) ==
  SubSeq(s, FirstLineStartResult(s),
         (CHOOSE k \in LaterLineStartResults(s) :
            \A m \in LaterLineStartResults(s) : k <= m) - 2)

C22_PairUnlessSwallowedResultMarker ==
  Extracted =>
    IF HasMarkerPair(ModelOutput)
      THEN IF EmptyRegion(ModelOutput) /\ LaterLineStartResults(ModelOutput) # {}
             THEN sql_code = Bare(ResultRegion(ModelOutput))
             ELSE sql_code = Bare(Region(ModelOutput))
      ELSE sql_code = Bare(ModelOutput)

C22_Witness ==
  /\ Extracted
  /\ ModelOutput = <<"SQLQuery:", "NL", "SQLResult:", "NL", "SQLResult:">>
  /\ sql_code = <<"SQLResult:">>

(***************************************************************************)
(* C23: the member generate_members creates with id k (ids are 1, 2, ...   *)
(* in order) has a referrer_id that is null or the id of a member created  *)
(* before it, a value in 1..k-1: never its own id, a later id or an id no  *)
(* member has; the first member has a null referrer.                       *)
(***************************************************************************)
C23_ReferrerIsEarlierMember ==
  /\ \A k \in 1..Len(members) :
       /\ members[k].member_id = k
       /\ members[k].referrer_id # k
       /\ \/ members[k].referrer_id = None
          \/ /\ members[k].referrer_id \in 1..(k - 1)
             /\ \E j \in 1..(k - 1) : members[j].member_id = members[k].referrer_id
  /\ Len(members) >= 1 => members[1].referrer_id = None
  /\ dpc = "members_done" => Len(members) = num_rows

C23_Witness ==
  /\ dpc = "members_done"
  /\ Len(members) = 3
  /\ members[2].referrer_id = None
  /\ members[3].referrer_id = 2

(***************************************************************************)
(* C24: every transaction in the list generate_transactions builds has     *)
(* between 1 and 3 transaction items with pairwise different item ids, so  *)
(* that no two transaction items share (transaction_id, item_id); its      *)
(* member_id is the id of one of the members given; its discount_rate is   *)
(* the discount_rate of its campaign when campaign_id is set and 0 when    *)
(* campaign_id is null.                                                    *)
(***************************************************************************)
ItemsOf(tx) ==
  SelectSeq(transaction_items, LAMBDA r : r.transaction_id = tx.transaction_id)

C24_TransactionsWellFormed ==
  /\ \A t \in 1..Len(transactions) :
       LET tx   == transactions[t]
           rows == ItemsOf(tx)
       IN  /\ Len(rows) >= 1
           /\ Len(rows) <= 3
           /\ \A a, b \in 1..Len(rows) : a # b => rows[a].item_id # rows[b].item_id
           /\ \A a \in 1..Len(rows) :
                \E n \in 1..Len(items) : items[n].item_id = rows[a].item_id
           /\ \E m \in 1..Len(members) : members[m].member_id = tx.member_id
           /\ IF tx.campaign_id = None
                THEN tx.discount_rate = 0
                ELSE /\ \E c \in 1..Len(campaigns) :
                          campaigns[c].campaign_id = tx.campaign_id
                     /\ \A c \in 1..Len(campaigns) :
                          campaigns[c].campaign_id = tx.campaign_id =>
                            tx.discount_rate = campaigns[c].discount_rate
  /\ \A a, b \in 1..Len(transaction_items) :
       a # b =>
         <<transaction_items[a].transaction_id, transaction_items[a].item_id>>
           # <<transaction_items[b].transaction_id, transaction_items[b].item_id>>
  /\ \A a \in 1..Len(transaction_items) :
       \E t \in 1..Len(transactions) :
         transactions[t].transaction_id = transaction_items[a].transaction_id
  /\ \A t, u \in 1..Len(transactions) :
       t # u => transactions[t].transaction_id # transactions[u].transaction_id

\* two transactions that share items: one with a campaign and three items,
\* one without a campaign and with one item
C24_Witness ==
  /\ dpc = "transactions_done"
  /\ Len(transactions) = 2
  /\ transactions[1].campaign_id = 1
  /\ transactions[1].discount_rate = 30
  /\ Len(ItemsOf(transactions[1])) = 3
  /\ transactions[2].campaign_id = None
  /\ transactions[2].member_id = 1
  /\ Len(ItemsOf(transactions[2])) = 1
  /\ ItemsOf(transactions[2])[1].item_id = 1

====
